---- MODULE Spec2Model ----
(***************************************************************************)
(* A model of the query chain of packages/database (ResultSet.ts): one     *)
(* Document Store with an optional Binary Index on "age", and one chain    *)
(* bound to it.  Row positions are 0-based as in the source; the k-th      *)
(* document of the store is data[k + 1].                                   *)
(***************************************************************************)
EXTENDS Integers, Sequences, FiniteSets, TLC

VARIABLES
    data,                  \* Collection.data: the ordered documents
    binaryIndices,         \* Collection.binaryIndices: field -> [values, dirty]
    adaptiveBinaryIndices, \* Collection.adaptiveBinaryIndices
    cloneObjects,          \* Collection.cloneObjects
    disableFreeze,         \* Collection.disableFreeze
    disableDeltaChangesApi, \* Collection.disableDeltaChangesApi
    collection,            \* ResultSet.collection: the store the chain is bound to
    rs,                    \* the chain: [filteredRows, filterInitialized]
    other,                 \* a branch of the chain kept by the application
    shared,                \* other.filteredRows and rs.filteredRows are one array object
    last                   \* history: the call that has just returned, its input and outcome

\* the configuration of the store
flags == <<adaptiveBinaryIndices, cloneObjects, disableFreeze, disableDeltaChangesApi>>

vars == <<data, binaryIndices, flags, collection, rs, other, shared, last>>

\* ---------------------------------------------------------------- bounds
MaxDocs == 2
MaxNum == 2
\* where() can append an undefined row on every call: longer chains are cut
MaxRows == 2

\* ---------------------------------------------------------------- values
Undefined == [t |-> "undefined", v |-> 0]
Null == [t |-> "null", v |-> 0]
Num(n) == [t |-> "number", v |-> n]

Numbers == {Num(n) : n \in 1..MaxNum}
AgeValues == {Undefined, Null} \cup Numbers
NameValues == Numbers
Fields == {"age", "name"}
IndexableFields == {"age"}
Documents == [age : AgeValues, name : NameValues]

\* filteredRows[-1], which where() reads after its last row, is undefined; a
\* row that is undefined is written UndefinedRow.  (The number -1, which
\* where() pushes on an Unfiltered chain, is the integer -1 itself.)
UndefinedRow == -2

\* data[row] is a document; data[-1] and data[undefined] are undefined
HasDoc(row) == row >= 0 /\ row < Len(data)
DocAt(row) == data[row + 1]

\* the total order of the binary indices: undefined, then null, then numbers
Rank(x) == IF x.t = "undefined" THEN 0 ELSE IF x.t = "null" THEN 1 ELSE 1 + x.v

ltHelper(a, b, orEqual) == IF Rank(a) = Rank(b) THEN orEqual ELSE Rank(a) < Rank(b)
gtHelper(a, b, orEqual) == IF Rank(a) = Rank(b) THEN orEqual ELSE Rank(a) > Rank(b)

sortHelper(a, b, desc) ==
    IF Rank(a) = Rank(b) THEN 0
    ELSE IF ltHelper(a, b, FALSE) THEN (IF desc THEN 1 ELSE -1)
    ELSE (IF desc THEN -1 ELSE 1)

\* ------------------------------------------------------------- operators
ComparisonOps == {"$eq", "$gt", "$gte", "$lt", "$lte"}
OperatorNames == ComparisonOps \cup {"$and", "$or", "$regex"}
indexedOps == ComparisonOps

\* Operators[op](a, b)
Operators(op, a, b) ==
    CASE op = "$eq" -> a = b
      [] op = "$gt" -> gtHelper(a, b, FALSE)
      [] op = "$gte" -> gtHelper(a, b, TRUE)
      [] op = "$lt" -> ltHelper(a, b, FALSE)
      [] op = "$lte" -> ltHelper(a, b, TRUE)

\* --------------------------------------------------------- sequences
Range(s) == {s[i] : i \in DOMAIN s}
Reverse(s) == [i \in 1..Len(s) |-> s[Len(s) + 1 - i]]
\* Array.prototype.slice(from, to), 0-based, to exclusive
Slice(s, from, to) ==
    LET lo == IF from > Len(s) THEN Len(s) ELSE from
        hi == IF to > Len(s) THEN Len(s) ELSE to
    IN  IF hi <= lo THEN <<>> ELSE SubSeq(s, lo + 1, hi)
\* Array.prototype.filter
Filter(s, Keep(_)) == SelectSeq(s, Keep)

\* Array.prototype.sort(cmp): stable; undefined entries go last and never
\* reach the comparator
SortRows(s, Cmp(_, _)) ==
    LET def == SelectSeq(s, LAMBDA r : r # UndefinedRow)
        und == SelectSeq(s, LAMBDA r : r = UndefinedRow)
        n == Len(def)
        before(i) == Cardinality({j \in (1..n) \ {i} :
                        \/ Cmp(def[j], def[i]) < 0
                        \/ Cmp(def[j], def[i]) = 0 /\ j < i})
    IN  [k \in 1..n |-> def[CHOOSE i \in 1..n : before(i) = k - 1]] \o und

\* ------------------------------------------------------------ the store
\* Collection.prepareFullDocIndex
prepareFullDocIndex == [i \in 1..Len(data) |-> i - 1]

\* Collection.count
CollectionCount == Len(data)

\* the positions of docs sorted by field under the index order, ties in
\* store order
BuildIndex(docs, field) ==
    LET n == Len(docs)
        before(i) == Cardinality({j \in 1..n :
                        \/ Rank(docs[j][field]) < Rank(docs[i][field])
                        \/ Rank(docs[j][field]) = Rank(docs[i][field]) /\ j < i})
    IN  [k \in 1..n |-> (CHOOSE i \in 1..n : before(i) = k - 1) - 1]

\* Collection.ensureIndex(field, force): rebuild when missing, dirty or forced
ensureIndex(idx, field, force) ==
    IF field \in DOMAIN idx /\ ~idx[field].dirty /\ ~force
    THEN idx
    ELSE [f \in DOMAIN idx \cup {field} |->
            IF f = field THEN [values |-> BuildIndex(data, field), dirty |-> FALSE]
            ELSE idx[f]]

\* Collection.calculateRange(op, field, value): the inclusive range [lo, hi]
\* of 0-based places of the index whose documents satisfy op; [0, -1] if none
calculateRange(idx, op, field, value) ==
    LET pv == idx[field].values
        hits == {i \in 1..Len(pv) : Operators(op, DocAt(pv[i])[field], value)}
    IN  IF hits = {} THEN <<0, -1>>
        ELSE <<(CHOOSE i \in hits : \A j \in hits : i <= j) - 1,
               (CHOOSE i \in hits : \A j \in hits : i >= j) - 1>>

\* ------------------------------------------------------------ the chain
NewResultSet == [filteredRows |-> <<>>, filterInitialized |-> FALSE]

\* no call has returned since the caller last went on
Idle == [op |-> "idle"]

\* the chain is bound to the store (data, binaryIndices, flags) it was made
\* from until eqJoin binds it to an ephemeral store of joined rows
TheStore == [name |-> "store"]
Bound == collection = TheStore

\* the store as constructed without options: no cloning, no freezing, no
\* delta-change tracking
Init ==
    /\ data = <<>>
    /\ binaryIndices = <<>>
    /\ adaptiveBinaryIndices \in BOOLEAN
    /\ cloneObjects = FALSE
    /\ disableFreeze = TRUE
    /\ disableDeltaChangesApi = TRUE
    /\ collection = TheStore
    /\ rs = NewResultSet
    /\ other = NewResultSet
    /\ shared = FALSE
    /\ last = Idle

\* Collection.insert(doc): append; the indices are patched in adaptive mode
\* and flagged dirty otherwise
Insert(doc) ==
    /\ last = Idle
    /\ Len(data) < MaxDocs
    /\ data' = Append(data, doc)
    /\ binaryIndices' =
         [f \in DOMAIN binaryIndices |->
            IF adaptiveBinaryIndices
            THEN [values |-> BuildIndex(data', f), dirty |-> FALSE]
            ELSE [binaryIndices[f] EXCEPT !.dirty = TRUE]]
    /\ last' = Idle
    /\ UNCHANGED <<flags, other, shared, collection, rs>>

\* Collection.ensureIndex(field) called by the application
EnsureIndex(field) ==
    /\ last = Idle
    /\ binaryIndices' = ensureIndex(binaryIndices, field, FALSE)
    /\ binaryIndices' # binaryIndices
    /\ last' = Idle
    /\ UNCHANGED <<data, flags, other, shared, collection, rs>>

\* ResultSet.reset
Reset ==
    /\ last = Idle /\ Bound
    /\ rs' = [filteredRows |-> IF Len(rs.filteredRows) > 0 THEN <<>> ELSE rs.filteredRows,
              filterInitialized |-> FALSE]
    /\ shared' = (shared /\ Len(rs.filteredRows) = 0)
    /\ last' = Idle
    /\ UNCHANGED <<data, binaryIndices, flags, other, collection>>

\* a faulty limit that slices filteredRows as it stands, taking an
\* Unfiltered chain for one without rows
limitOfRowsOnly(this, count) ==
    [this |-> this,
     copy |-> [filteredRows |-> Slice(this.filteredRows, 0, count),
               filterInitialized |-> TRUE]]

\* ResultSet.limit(count): [this, copy]
limit(this, count) ==
    LET filled == IF ~this.filterInitialized /\ Len(this.filteredRows) = 0
                  THEN [this EXCEPT !.filteredRows = prepareFullDocIndex]
                  ELSE this
    IN  [this |-> filled,
         copy |-> [filteredRows |-> Slice(filled.filteredRows, 0, count),
                   filterInitialized |-> TRUE]]

\* ResultSet.offset(position): [this, copy]
offset(this, position) ==
    LET filled == IF ~this.filterInitialized /\ Len(this.filteredRows) = 0
                  THEN [this EXCEPT !.filteredRows = prepareFullDocIndex]
                  ELSE this
    IN  [this |-> filled,
         copy |-> [filteredRows |-> Slice(filled.filteredRows, position, Len(filled.filteredRows)),
                   filterInitialized |-> TRUE]]

Limit(n) ==
    /\ last = Idle /\ Bound
    /\ rs' = limit(rs, n).this
    /\ last' = [op |-> "limit", n |-> n, pre |-> rs, ret |-> limit(rs, n).copy]
    /\ UNCHANGED <<data, binaryIndices, flags, other, shared, collection>>

Offset(n) ==
    /\ last = Idle /\ Bound
    /\ rs' = offset(rs, n).this
    /\ shared' = (shared /\ ~(~rs.filterInitialized /\ Len(rs.filteredRows) = 0))
    /\ last' = [op |-> "offset", n |-> n, pre |-> rs, ret |-> offset(rs, n).copy]
    /\ UNCHANGED <<data, binaryIndices, flags, other, collection>>

\* ----------------------------------------------------------- queries
\* A clause is one key of a query object with its entry:
\*   form "op":   { key: { op: val } }
\*   form "lit":  { key: val }
\*   form "name": { key: "name" }      (the entry is a string)
FieldClause(f, op, v) == [key |-> f, form |-> "op", op |-> op, val |-> v, name |-> ""]
LitClause(f, v) == [key |-> f, form |-> "lit", op |-> "", val |-> v, name |-> ""]
NameClause(k, n) == [key |-> k, form |-> "name", op |-> "", val |-> Undefined, name |-> n]

\* A query is undefined (kind "none"), an object of clauses (kind "fields",
\* keys in order), or { $and: [...] } / { $or: [...] } whose elements are
\* one-clause objects.
NoQuery == [kind |-> "none", clauses |-> <<>>]
FieldsQuery(cs) == [kind |-> "fields", clauses |-> cs]
AndQuery(cs) == [kind |-> "$and", clauses |-> cs]
OrQuery(cs) == [kind |-> "$or", clauses |-> cs]

\* Object.keys(query)
QueryKeys(q) ==
    IF q.kind = "fields" THEN [i \in 1..Len(q.clauses) |-> q.clauses[i].key]
    ELSE IF q.kind = "none" THEN <<>>
    ELSE <<q.kind>>

\* what findAnd/findOr receive: an array of one-clause queries, or (from
\* find) the query object itself, which has no length
ArrayArg(cs) == [isArray |-> TRUE, items |-> cs]
ObjectArg(q) == [isArray |-> FALSE, items |-> <<>>]

\* isKey(queryEntry): the entry is a string or a number
isKey(entry) == entry.form \in {"name", "lit"} /\ entry.val.t # "null"

\* the entry find hands to findDocumentEntry: wrapped in { $eq: ... } unless
\* the key is an operator name
FormatEntry(c) == IF c.key \in OperatorNames THEN c ELSE [c EXCEPT !.form = "wrapped"]

\* a faulty copy that duplicates the rows but leaves the new chain's
\* filterInitialized at its initial value
copyWithoutFlag(this) ==
    [filteredRows |-> this.filteredRows, filterInitialized |-> FALSE]

\* ResultSet.copy
copy(this) ==
    [filteredRows |-> IF Len(this.filteredRows) > 0
                      THEN Slice(this.filteredRows, 0, Len(this.filteredRows))
                      ELSE <<>>,
     filterInitialized |-> this.filterInitialized]

\* ResultSet.count
count(this) == IF this.filterInitialized THEN Len(this.filteredRows) ELSE CollectionCount

\* One pass of a scan loop over places 1..n: Throws(i) and Hit(i) say what
\* the body does at place i, Row(i) what it pushes.  [rows, threw, early]
Scan(n, Throws(_), Hit(_), Row(_), firstOnly) ==
    LET stop == IF \E i \in 1..n : Throws(i)
                THEN CHOOSE i \in 1..n : Throws(i) /\ \A j \in 1..(i - 1) : ~Throws(j)
                ELSE n + 1
        hits == {i \in 1..(stop - 1) : Hit(i)}
        first == CHOOSE i \in hits : \A j \in hits : i <= j
        places == SelectSeq([i \in 1..n |-> i], LAMBDA i : i \in hits)
    IN  IF firstOnly /\ hits # {}
        THEN [rows |-> <<Row(first)>>, threw |-> FALSE, early |-> TRUE]
        ELSE IF stop <= n
        THEN [rows |-> <<>>, threw |-> TRUE, early |-> FALSE]
        ELSE [rows |-> [k \in 1..Len(places) |-> Row(places[k])],
              threw |-> FALSE, early |-> FALSE]

\* document[key]: undefined unless the key is a field of the document
Get(doc, key) == IF key \in Fields THEN doc[key] ELSE Undefined

\* ---------------------------------------------------- precompileQuery
\* Query values: a string, a [pattern, flags] array, a RegExp (made from the
\* value in "of", or handed in by the caller), a number, or an object given
\* by its keys in order with their values
StringValue == [t |-> "string"]
ArrayValue == [t |-> "array"]
CallerRegExp == [t |-> "regexp", of |-> "caller"]
NewRegExp(value) == [t |-> "regexp", of |-> value.t]
ObjectValue(entries) == [t |-> "object", entries |-> entries]
Entry(k, v) == [key |-> k, val |-> v]

\* typeof value === 'object' && value, for the values above
IsObject(value) == value.t \in {"object", "array", "regexp"}

\* ResultSet.precompileQuery(operator, value): [ret, arg, threw]; ret is the
\* value returned and arg the caller's value as the call leaves it.
\* precompileKeys is its loop over the keys of an object from key i on,
\* Reflect.set writing into the object that was handed in.
RECURSIVE precompileQuery(_, _), precompileKeys(_, _)
precompileKeys(object, i) ==
    IF i > Len(object.entries) THEN [object |-> object, threw |-> FALSE]
    ELSE LET key == object.entries[i].key
             entry == object.entries[i].val
         IN  IF key = "$regex" \/ IsObject(entry)
             THEN CHOOSE out \in
                    {IF r.threw
                     THEN [object |-> [object EXCEPT !.entries[i].val = r.arg],
                           threw |-> TRUE]
                     ELSE precompileKeys([object EXCEPT !.entries[i].val = r.ret], i + 1)
                        : r \in {precompileQuery(key, entry)}} : TRUE
             ELSE precompileKeys(object, i + 1)

precompileQuery(operator, value) ==
    IF operator = "$regex"
    THEN IF value.t \in {"array", "string"}
         THEN [ret |-> NewRegExp(value), arg |-> value, threw |-> FALSE]
         ELSE [ret |-> value, arg |-> value, threw |-> value.t # "regexp"]
    ELSE IF value.t = "object"
    THEN CHOOSE out \in
           {[ret |-> r.object, arg |-> r.object, threw |-> r.threw]
              : r \in {precompileKeys(value, 1)}} : TRUE
    ELSE [ret |-> value, arg |-> value, threw |-> FALSE]

\* the calls taken: a $regex operand of each kind, and objects that hold a
\* $regex clause at the first and at the second level
PrecompileInputs ==
    {<<"$regex", StringValue>>,
     <<"$regex", ArrayValue>>,
     <<"$regex", CallerRegExp>>,
     <<"$regex", Num(1)>>,
     <<"name", Num(1)>>,
     <<"name", ObjectValue(<<Entry("$eq", Num(1))>>)>>,
     <<"name", ObjectValue(<<Entry("$regex", StringValue)>>)>>,
     <<"name", ObjectValue(<<Entry("$regex", CallerRegExp)>>)>>,
     <<"$and", ObjectValue(<<Entry("name", ObjectValue(<<Entry("$regex", ArrayValue)>>)),
                             Entry("age", ObjectValue(<<Entry("$regex", Num(1))>>))>>)>>}

\* ResultSet.precompileQuery called by the application
PrecompileQuery(operator, value) ==
    /\ last = Idle
    /\ \E r \in {precompileQuery(operator, value)} :
        last' = [op |-> "precompileQuery", operator |-> operator, value |-> value,
                 arg |-> r.arg, ret |-> r.ret, threw |-> r.threw]
    /\ UNCHANGED <<data, binaryIndices, flags, other, shared, collection, rs>>

\* ResultSet.findDocumentEntry: [this, idx, threw]
findDocumentEntry(this, idx, propertyOrOperation, queryEntry, firstOnly) ==
    LET value == Undefined
        doIndexCheck == ~this.filterInitialized
        searchByIndex ==
            /\ doIndexCheck
            /\ isKey(queryEntry)
            /\ queryEntry.form = "name"
            /\ queryEntry.name \in DOMAIN idx
            /\ propertyOrOperation \in indexedOps
        idx1 == IF searchByIndex /\ adaptiveBinaryIndices # TRUE
                THEN ensureIndex(idx, queryEntry.name, FALSE)
                ELSE idx
        hasOperator == propertyOrOperation \in ComparisonOps
        test(doc) == Operators(propertyOrOperation, Get(doc, propertyOrOperation), value)
        rows == this.filteredRows
        filtered ==
            Scan(Len(rows),
                 LAMBDA i : ~HasDoc(rows[i]) \/ ~hasOperator,
                 LAMBDA i : test(DocAt(rows[i])),
                 LAMBDA i : rows[i],
                 firstOnly)
        unindexed ==
            Scan(Len(rows),
                 LAMBDA i : ~HasDoc(i - 1) \/ ~hasOperator,
                 LAMBDA i : test(DocAt(i - 1)),
                 LAMBDA i : i - 1,
                 firstOnly)
        segment == calculateRange(idx1, propertyOrOperation, queryEntry.name, value)
        pv == idx1[queryEntry.name].values
        secondPhase == propertyOrOperation = "$eq"
        indexed ==
            Scan(segment[2] - segment[1] + 1,
                 LAMBDA i : FALSE,
                 LAMBDA i : secondPhase =>
                     Operators("$eq", Get(DocAt(pv[segment[1] + i]), propertyOrOperation), value),
                 LAMBDA i : pv[segment[1] + i],
                 firstOnly)
        r == IF this.filterInitialized THEN filtered
             ELSE IF ~searchByIndex THEN unindexed
             ELSE indexed
    IN  IF propertyOrOperation = "$regex" /\ precompileQuery("$regex", value).threw
        THEN [this |-> this, idx |-> idx, threw |-> TRUE]
        ELSE IF r.threw
        THEN [this |-> this, idx |-> idx1, threw |-> TRUE]
        ELSE [this |-> [filteredRows |-> r.rows,
                        filterInitialized |-> TRUE],
              idx |-> idx1, threw |-> FALSE]

RECURSIVE find(_, _, _, _), findAndLoop(_, _, _, _), findOrLoop(_, _, _, _, _)

\* the loop of ResultSet.findAnd from element i (1-based) on
findAndLoop(this, idx, arg, i) ==
    IF ~arg.isArray \/ i > Len(arg.items) THEN [this |-> this, idx |-> idx, threw |-> FALSE]
    ELSE IF count(this) = 0 THEN [this |-> this, idx |-> idx, threw |-> FALSE]
    ELSE LET r == find(this, idx, FieldsQuery(<<arg.items[i]>>), FALSE)
         IN  IF r.threw THEN r ELSE findAndLoop(r.this, r.idx, arg, i + 1)

\* ResultSet.findAnd
findAnd(this, idx, arg) == findAndLoop(this, idx, arg, 1)

\* the loop of ResultSet.findOr from element i on; documents is the union
\* so far (indexes[] is its set of members)
findOrLoop(this, idx, arg, i, documents) ==
    IF ~arg.isArray \/ i > Len(arg.items)
    THEN [this |-> [filteredRows |-> documents, filterInitialized |-> TRUE],
          idx |-> idx, threw |-> FALSE]
    ELSE LET r == find(copy(this), idx, FieldsQuery(<<arg.items[i]>>), FALSE)
             filteredRow == r.this.filteredRows
             fresh == SelectSeq([j \in 1..Len(filteredRow) |-> j],
                        LAMBDA j : /\ filteredRow[j] \notin Range(documents)
                                   /\ \A k \in 1..(j - 1) : filteredRow[k] # filteredRow[j])
         IN  IF r.threw THEN [this |-> this, idx |-> r.idx, threw |-> TRUE]
             ELSE findOrLoop(this, r.idx, arg, i + 1,
                             documents \o [k \in 1..Len(fresh) |-> filteredRow[fresh[k]]])

\* ResultSet.findOr
findOr(this, idx, arg) == findOrLoop(this, idx, arg, 1, <<>>)

\* ResultSet.find: [this, idx, threw]
find(this, idx, query, firstOnly) ==
    LET queryEntryKeys == QueryKeys(query)
        filters == [i \in 1..Len(query.clauses) |-> FormatEntry(query.clauses[i])]
        queryOperation == queryEntryKeys[1]
        combined == IF queryOperation = "$and"
                    THEN findAnd(this, idx, ObjectArg(query))
                    ELSE findOr(this, idx, ObjectArg(query))
    IN  IF Len(data) = 0
        THEN [this |-> [filteredRows |-> <<>>, filterInitialized |-> TRUE],
              idx |-> idx, threw |-> FALSE]
        ELSE IF query.kind # "none" /\ Len(queryEntryKeys) > 0
        THEN IF Len(queryEntryKeys) > 1
             THEN find(this, idx, AndQuery(filters), firstOnly)
             ELSE IF queryOperation \in {"$and", "$or"}
             THEN IF ~combined.threw /\ firstOnly /\ Len(combined.this.filteredRows) > 1
                  THEN [combined EXCEPT !.this.filteredRows = Slice(@, 0, 1)]
                  ELSE combined
             ELSE findDocumentEntry(this, idx, queryOperation, filters[1], firstOnly)
        ELSE IF firstOnly
        THEN [this |-> [filteredRows |-> IF this.filterInitialized
                                         THEN Slice(this.filteredRows, 0, 1)
                                         ELSE IF Len(data) > 0 THEN <<0>> ELSE <<>>,
                        filterInitialized |-> TRUE],
              idx |-> idx, threw |-> FALSE]
        ELSE [this |-> this, idx |-> idx, threw |-> FALSE]

\* ------------------------------------------------------- query inputs
QueryValue == Num(MaxNum)
FieldClauses ==
    {FieldClause("age", op, QueryValue) : op \in ComparisonOps}
        \cup {LitClause("name", QueryValue)}
NameClauses == {NameClause(op, "age") : op \in ComparisonOps}
Clauses == FieldClauses \cup NameClauses

ListClauses == {FieldClause("age", "$gte", QueryValue), NameClause("$gte", "age")}
ClauseLists == {<<c>> : c \in ListClauses} \cup {<<c, d>> : c, d \in ListClauses}

Queries ==
    {NoQuery, FieldsQuery(<<>>)}
        \cup {FieldsQuery(<<c>>) : c \in Clauses}
        \cup {FieldsQuery(<<FieldClause("age", "$gte", QueryValue), LitClause("name", QueryValue)>>)}
        \cup {AndQuery(cs) : cs \in ClauseLists}
        \cup {OrQuery(cs) : cs \in ClauseLists}

\* find left this.filteredRows the array object it was: it threw before
\* assigning, or returned on a path that assigns nothing
findKeepsRows(this, q, firstOnly, threw) ==
    LET queryEntryKeys == QueryKeys(q)
        combinesAnd == Len(queryEntryKeys) > 1 \/ queryEntryKeys[1] = "$and"
    IN  \/ threw
        \/ /\ Len(data) > 0
           /\ IF q.kind # "none" /\ Len(queryEntryKeys) > 0
              THEN combinesAnd /\ ~(firstOnly /\ Len(this.filteredRows) > 1)
              ELSE ~firstOnly

Find(q, firstOnly) ==
    /\ last = Idle /\ Bound
    /\ \E r \in {find(rs, binaryIndices, q, firstOnly)} :
        /\ rs' = r.this
        /\ binaryIndices' = r.idx
        /\ shared' = (shared /\ findKeepsRows(rs, q, firstOnly, r.threw))
        /\ last' = [op |-> "find", query |-> q, firstOnly |-> firstOnly, pre |-> rs,
                    threw |-> r.threw]
        /\ UNCHANGED <<data, flags, other, collection>>

FindAnd(cs) ==
    /\ last = Idle /\ Bound
    /\ \E r \in {findAnd(rs, binaryIndices, ArrayArg(cs))} :
        /\ rs' = r.this
        /\ binaryIndices' = r.idx
        /\ last' = [op |-> "findAnd", clauses |-> cs, pre |-> rs, threw |-> r.threw]
        /\ UNCHANGED <<data, flags, other, shared, collection>>

FindOr(cs) ==
    /\ last = Idle /\ Bound
    /\ \E r \in {findOr(rs, binaryIndices, ArrayArg(cs))} :
        /\ rs' = r.this
        /\ binaryIndices' = r.idx
        /\ shared' = (shared /\ r.threw)
        /\ last' = [op |-> "findOr", clauses |-> cs, pre |-> rs, threw |-> r.threw]
        /\ UNCHANGED <<data, flags, other, collection>>

\* ------------------------------------------------------------- where
\* A filter argument: a function document -> boolean, given by what it
\* answers on a document (const, or Operators[op](doc[field], val)) and by
\* what it does when handed undefined ("throw", "true" or "false"); or a
\* value that is no function.
CompareFilter(f, op, v, u) ==
    [isFunction |-> TRUE, const |-> FALSE, field |-> f, op |-> op, val |-> v, onUndefined |-> u]
ConstFilter(u) ==
    [isFunction |-> TRUE, const |-> TRUE, field |-> "", op |-> "", val |-> Undefined, onUndefined |-> u]
NotAFunction ==
    [isFunction |-> FALSE, const |-> FALSE, field |-> "", op |-> "", val |-> Undefined, onUndefined |-> "throw"]

FilterHolds(filter, doc) ==
    IF filter.const THEN TRUE ELSE Operators(filter.op, doc[filter.field], filter.val)

\* a faulty where that marks the chain Filtered before it looks at its
\* argument
whereMarksFirst(this, filter) ==
    LET marked == [this EXCEPT !.filterInitialized = TRUE]
        rows == IF this.filterInitialized THEN this.filteredRows ELSE prepareFullDocIndex
    IN  IF ~filter.isFunction
        THEN [this |-> marked, threw |-> TRUE]
        ELSE [this |-> [marked EXCEPT !.filteredRows =
                          SelectSeq(rows, LAMBDA p : HasDoc(p) /\ FilterHolds(filter, DocAt(p)))],
              threw |-> FALSE]

\* ResultSet.where: [this, threw]
where(this, filter) ==
    LET rows == this.filteredRows
        n == Len(rows)
        m == Len(data)
        \* the filtered loop visits j = n-1, ..., 0, -1
        rowAt(i) == IF i <= n THEN rows[n + 1 - i] ELSE UndefinedRow
        filtered ==
            Scan(n + 1,
                 LAMBDA i : ~HasDoc(rowAt(i)) /\ filter.onUndefined = "throw",
                 LAMBDA i : IF HasDoc(rowAt(i)) THEN FilterHolds(filter, DocAt(rowAt(i)))
                            ELSE filter.onUndefined = "true",
                 LAMBDA i : rowAt(i),
                 FALSE)
        \* the unfiltered loop visits k = m-1, ..., 0, -1
        unfiltered ==
            Scan(m + 1,
                 LAMBDA i : ~HasDoc(m - i) /\ filter.onUndefined = "throw",
                 LAMBDA i : IF HasDoc(m - i) THEN FilterHolds(filter, DocAt(m - i))
                            ELSE filter.onUndefined = "true",
                 LAMBDA i : m - i,
                 FALSE)
        r == IF this.filterInitialized THEN filtered ELSE unfiltered
    IN  IF ~filter.isFunction \/ r.threw
        THEN [this |-> this, threw |-> TRUE]
        ELSE [this |-> [filteredRows |-> r.rows, filterInitialized |-> TRUE],
              threw |-> FALSE]

Filters ==
    {CompareFilter("age", "$gte", QueryValue, "throw"),
     CompareFilter("age", "$lt", QueryValue, "false"),
     CompareFilter("name", "$eq", QueryValue, "false"),
     ConstFilter("true"),
     NotAFunction}

Where(filter) ==
    /\ last = Idle /\ Bound
    /\ \E r \in {where(rs, filter)} :
        /\ Len(r.this.filteredRows) <= MaxRows
        /\ rs' = r.this
        /\ shared' = (shared /\ r.threw)
        /\ last' = [op |-> "where", filter |-> filter, pre |-> rs, before |-> data,
                    threw |-> r.threw]
        /\ UNCHANGED <<data, binaryIndices, flags, other, collection>>

\* -------------------------------------------------------- simpleSort
\* The options argument: absent (kind "none"), a boolean (kind "boolean",
\* its value in desc) or an options object (kind "object").
NoOptions ==
    [kind |-> "none", desc |-> FALSE, disableIndexIntersect |-> FALSE,
     forceIndexIntersect |-> FALSE, useJavascriptSorting |-> FALSE]
BooleanOption(b) == [NoOptions EXCEPT !.kind = "boolean", !.desc = b]
ObjectOptions(d, dis, force, js) ==
    [kind |-> "object", desc |-> d, disableIndexIntersect |-> dis,
     forceIndexIntersect |-> force, useJavascriptSorting |-> js]

\* the comparison of the useJavascriptSorting branch: ===, then >
ToNumberIsNaN(x) == x.t = "undefined"
ToNumber(x) == IF x.t = "number" THEN x.v ELSE 0
JsCompare(a, b) ==
    IF a = b THEN 0
    ELSE IF ~ToNumberIsNaN(a) /\ ~ToNumberIsNaN(b) /\ ToNumber(a) > ToNumber(b) THEN 1
    ELSE -1

\* a comparator that reads a field of data[row] throws when some row it is
\* handed has no document; with fewer than two defined rows it is not called
ComparatorThrows(rows) ==
    LET def == SelectSeq(rows, LAMBDA r : r # UndefinedRow)
    IN  Len(def) >= 2 /\ \E i \in 1..Len(def) : ~HasDoc(def[i])

\* ResultSet.sort with the comparator compare(doc1, doc2): [this, threw]
sort(this, compare(_, _)) ==
    LET filled == IF ~this.filterInitialized /\ Len(this.filteredRows) = 0
                  THEN prepareFullDocIndex
                  ELSE this.filteredRows
    IN  IF ComparatorThrows(filled)
        THEN [this |-> [this EXCEPT !.filteredRows = filled], threw |-> TRUE]
        ELSE [this |-> [this EXCEPT !.filteredRows =
                          SortRows(filled, LAMBDA a, b : compare(DocAt(a), DocAt(b)))],
              threw |-> FALSE]

\* a user comparator: (a, b) => sortHelper(a[field], b[field], false)
CompareBy(f) == [field |-> f]
ApplyCompare(compareFunction, obj1, obj2) ==
    sortHelper(obj1[compareFunction.field], obj2[compareFunction.field], FALSE)

\* ResultSet.sort called by the application
\* Array.prototype.sort reorders the array object itself: a second chain
\* whose filteredRows is that same object sees the new order
SeenBy(that, sameArray, rows) ==
    IF sameArray THEN [that EXCEPT !.filteredRows = rows] ELSE that

Sort(compareFunction) ==
    /\ last = Idle /\ Bound
    /\ \E r \in {sort(rs, LAMBDA d1, d2 : ApplyCompare(compareFunction, d1, d2))} :
        /\ rs' = r.this
        /\ \E inPlace \in {shared /\ ~(~rs.filterInitialized /\ Len(rs.filteredRows) = 0)} :
            /\ other' = SeenBy(other, inPlace, r.this.filteredRows)
            /\ shared' = inPlace
        /\ last' = [op |-> "sort", compareFunction |-> compareFunction, pre |-> rs,
                    threw |-> r.threw]
        /\ UNCHANGED <<data, binaryIndices, flags, collection>>

\* ResultSet.simpleSort: [this, idx, threw, path]; path names the branch
\* taken
simpleSort(this, idx, property, options) ==
    LET internalOptions ==
            IF options.kind = "boolean"
            THEN [desc |-> options.desc, disableIndexIntersect |-> FALSE,
                  forceIndexIntersect |-> FALSE, useJavascriptSorting |-> FALSE]
            ELSE [desc |-> FALSE, disableIndexIntersect |-> FALSE,
                  forceIndexIntersect |-> FALSE, useJavascriptSorting |-> FALSE]
        dc == Len(data)
        frl == Len(this.filteredRows)
        hasBinaryIndex == property \in DOMAIN idx
        targetEff == IF internalOptions.useJavascriptSorting THEN 6 ELSE 10
        \* frl = 0, Unfiltered, indexed: copy the index
        idx1 == ensureIndex(idx, property, FALSE)
        copied == idx1[property].values
        \* frl > 0: eff = dc / frl <= targetEff
        intersects ==
            /\ frl > 0
            /\ ~internalOptions.disableIndexIntersect /\ hasBinaryIndex
            /\ (dc <= targetEff * frl \/ internalOptions.forceIndexIntersect)
        pv == idx[property].values
        intersected == Filter(pv, LAMBDA n : n \in Range(this.filteredRows))
        toSort == IF frl = 0
                  THEN [this EXCEPT !.filteredRows = prepareFullDocIndex]
                  ELSE this
        sorted ==
            IF internalOptions.useJavascriptSorting
            THEN sort(toSort, LAMBDA d1, d2 : JsCompare(d1[property], d2[property]))
            ELSE IF ComparatorThrows(toSort.filteredRows)
            THEN [this |-> toSort, threw |-> TRUE]
            ELSE [this |-> [toSort EXCEPT !.filteredRows =
                      SortRows(@, LAMBDA a, b :
                          sortHelper(DocAt(a)[property], DocAt(b)[property],
                                     internalOptions.desc))],
                  threw |-> FALSE]
    IN  IF frl = 0 /\ this.filterInitialized
        THEN [this |-> this, idx |-> idx, threw |-> FALSE, path |-> "none"]
        ELSE IF frl = 0 /\ hasBinaryIndex
        THEN [this |-> [this EXCEPT !.filteredRows =
                          IF internalOptions.desc THEN Reverse(copied) ELSE copied],
              idx |-> idx1, threw |-> FALSE, path |-> "index copy"]
        ELSE IF intersects
        THEN [this |-> [this EXCEPT !.filteredRows =
                          IF internalOptions.desc THEN Reverse(intersected) ELSE intersected],
              idx |-> idx, threw |-> FALSE, path |-> "index intersect"]
        ELSE [this |-> sorted.this, idx |-> idx, threw |-> sorted.threw,
              path |-> "comparator sort"]

SortOptions ==
    {NoOptions, BooleanOption(TRUE), BooleanOption(FALSE),
     ObjectOptions(TRUE, FALSE, FALSE, FALSE),
     ObjectOptions(FALSE, TRUE, FALSE, FALSE),
     ObjectOptions(FALSE, FALSE, FALSE, TRUE)}

SimpleSort(property, options) ==
    /\ last = Idle /\ Bound
    /\ \E r \in {simpleSort(rs, binaryIndices, property, options)} :
        /\ rs' = r.this
        /\ binaryIndices' = r.idx
        /\ \E inPlace \in {/\ shared
                            /\ \/ r.path = "none"
                               \/ r.path = "comparator sort" /\ Len(rs.filteredRows) > 0} :
            /\ other' = SeenBy(other, inPlace, r.this.filteredRows)
            /\ shared' = inPlace
        /\ last' = [op |-> "simpleSort", property |-> property, options |-> options,
                    pre |-> rs, threw |-> r.threw, path |-> r.path]
        /\ UNCHANGED <<data, flags, collection>>

\* ------------------------------------------------------- compoundSort
\* An entry of the properties array: a bare field name or [field, isDesc]
BareProperty(p) == [property |-> p, desc |-> FALSE, isArray |-> FALSE]
PairProperty(p, d) == [property |-> p, desc |-> d, isArray |-> TRUE]

\* compoundEval(props, obj1, obj2): the first field on which the documents
\* differ decides, in that field's direction; 0 when none does
RECURSIVE compoundEval(_, _, _)
compoundEval(props, obj1, obj2) ==
    IF props = <<>> THEN 0
    ELSE LET res == sortHelper(obj1[Head(props).property], obj2[Head(props).property],
                               Head(props).desc)
         IN  IF res # 0 THEN res ELSE compoundEval(Tail(props), obj1, obj2)

\* a faulty compoundSort that sorts on the first entry only
compoundSortFirstEntryOnly(this, idx, properties) ==
    IF Len(properties) = 0
    THEN [this |-> this, idx |-> idx, threw |-> TRUE]
    ELSE simpleSort(this, idx, properties[1].property, BooleanOption(properties[1].desc))

\* ResultSet.compoundSort: [this, idx, threw]
compoundSort(this, idx, properties) ==
    IF Len(properties) = 0
    THEN [this |-> this, idx |-> idx, threw |-> TRUE]
    ELSE IF Len(properties) = 1
    THEN simpleSort(this, idx, properties[1].property, BooleanOption(properties[1].desc))
    ELSE LET props == [i \in 1..Len(properties) |->
                          PairProperty(properties[i].property, properties[i].desc)]
             filled == IF ~this.filterInitialized /\ Len(this.filteredRows) = 0
                       THEN prepareFullDocIndex
                       ELSE this.filteredRows
         IN  IF ComparatorThrows(filled)
             THEN [this |-> [this EXCEPT !.filteredRows = filled], idx |-> idx,
                   threw |-> TRUE]
             ELSE [this |-> [this EXCEPT !.filteredRows =
                               SortRows(filled, LAMBDA a, b :
                                   compoundEval(props, DocAt(a), DocAt(b)))],
                   idx |-> idx, threw |-> FALSE]

CompoundProperties ==
    {<<>>,
     <<BareProperty("age")>>,
     <<PairProperty("name", TRUE)>>,
     <<PairProperty("age", TRUE), BareProperty("name")>>,
     <<BareProperty("name"), PairProperty("age", TRUE)>>}

CompoundSort(properties) ==
    /\ last = Idle /\ Bound
    /\ \E r \in {compoundSort(rs, binaryIndices, properties)} :
        /\ rs' = r.this
        /\ binaryIndices' = r.idx
        /\ last' = [op |-> "compoundSort", properties |-> properties, pre |-> rs,
                    before |-> data, threw |-> r.threw]
        /\ UNCHANGED <<data, flags, other, shared, collection>>

\* --------------------------------------------------------------- data
\* The options argument of data(): absent, or { forceClones, removeMeta }
NoDataOptions == [given |-> FALSE, forceClones |-> FALSE, removeMeta |-> FALSE]
DataOptions(fc, rm) == [given |-> TRUE, forceClones |-> fc, removeMeta |-> rm]

\* What data() returns for a row: the stored instance itself (clone FALSE)
\* or a clone made with a method; meta says whether the returned object
\* carries the $loki and meta fields; a row without a document gives
\* undefined
Instance(row) ==
    IF HasDoc(row)
    THEN [row |-> row, doc |-> DocAt(row), clone |-> FALSE, method |-> "none", meta |-> TRUE]
    ELSE [row |-> row, doc |-> Undefined, clone |-> FALSE, method |-> "none", meta |-> FALSE]
Clone(row, method, removeMeta) ==
    [row |-> row, doc |-> DocAt(row), clone |-> TRUE, method |-> method, meta |-> ~removeMeta]

\* a faulty data() that clones only when the store's cloneObjects is set
dataIgnoringForce(this, dataOptions) ==
    LET rows == IF ~this.filterInitialized /\ Len(this.filteredRows) = 0
                THEN prepareFullDocIndex ELSE this.filteredRows
    IN  [this |-> [this EXCEPT !.filterInitialized = @ \/ Len(this.filteredRows) > 0],
         result |-> [i \in 1..Len(rows) |->
                       IF cloneObjects /\ HasDoc(rows[i])
                       THEN Clone(rows[i], "collection", FALSE)
                       ELSE Instance(rows[i])],
         stripped |-> {},
         threw |-> FALSE]

\* a faulty data() that reads filteredRows as it stands, taking an Unfiltered
\* chain for one without documents
dataOfRowsOnly(this, dataOptions) ==
    [this |-> this,
     result |-> [i \in 1..Len(this.filteredRows) |-> Instance(this.filteredRows[i])],
     stripped |-> {},
     threw |-> FALSE]

\* ResultSet.data: [this, result, stripped, threw]; stripped is the set of
\* rows whose stored instance lost its $loki and meta fields
data_(this, dataOptions) ==
    LET strip == dataOptions.removeMeta /\ ~dataOptions.forceClones
        delta == ~disableDeltaChangesApi /\ disableFreeze
        forceClones == dataOptions.forceClones \/ strip \/ delta
        forceCloneMethod == IF delta THEN "parse-stringify"
                            ELSE IF strip THEN "shallow"
                            ELSE "undefined"
        method == IF forceCloneMethod # "undefined" THEN forceCloneMethod ELSE "collection"
        cloning == cloneObjects \/ forceClones
        unfiltered == ~this.filterInitialized /\ Len(this.filteredRows) = 0
        rows == IF unfiltered THEN prepareFullDocIndex ELSE this.filteredRows
        after == IF unfiltered THEN this ELSE [this EXCEPT !.filterInitialized = TRUE]
    IN  IF cloning
        THEN IF \E i \in 1..Len(rows) : ~HasDoc(rows[i])
             THEN [this |-> after, result |-> <<>>, stripped |-> {}, threw |-> TRUE]
             ELSE [this |-> after,
                   result |-> [i \in 1..Len(rows) |->
                                 Clone(rows[i], method, dataOptions.removeMeta)],
                   stripped |-> {}, threw |-> FALSE]
        ELSE [this |-> after,
              result |-> [i \in 1..Len(rows) |-> Instance(rows[i])],
              stripped |-> {}, threw |-> FALSE]

AllDataOptions ==
    {NoDataOptions} \cup {DataOptions(fc, rm) : fc, rm \in BOOLEAN}

Data(dataOptions) ==
    /\ last = Idle /\ Bound
    /\ \E r \in {data_(rs, dataOptions)} :
        /\ rs' = r.this
        /\ last' = [op |-> "data", dataOptions |-> dataOptions, pre |-> rs,
                    result |-> r.result, stripped |-> r.stripped, threw |-> r.threw]
        /\ UNCHANGED <<data, binaryIndices, flags, other, shared, collection>>

\* ResultSet.count called by the application
Count ==
    /\ last = Idle /\ Bound
    /\ last' = [op |-> "count", pre |-> rs, ret |-> count(rs)]
    /\ UNCHANGED <<data, binaryIndices, flags, other, shared, collection, rs>>

\* ResultSet.copy (alias branch) called by the application
Copy ==
    /\ last = Idle /\ Bound
    /\ last' = [op |-> "copy", pre |-> rs, ret |-> copy(rs)]
    /\ UNCHANGED <<data, binaryIndices, flags, other, shared, collection, rs>>

\* ------------------------------------------------------------- eqJoin
\* The joinData argument: an array of documents, a chain or a store, each
\* given by the documents it materialises to
ArrayData(docs) == [kind |-> "array", docs |-> docs]
ResultSetData(docs) == [kind |-> "resultset", docs |-> docs]
CollectionData(docs) == [kind |-> "collection", docs |-> docs]

\* the {} that stands in for a missing right-hand document
EmptyDocument == [f \in {} |-> Undefined]

\* the mapFunction argument: absent (the default pairs left and right) or
\* (left, right) => ({ age: left.age, name: right.name })
DefaultMapFunction == [given |-> FALSE]
ProjectMapFunction == [given |-> TRUE]
ApplyJoinMap(mapFunction, left, right) ==
    IF ~mapFunction.given
    THEN [left |-> left, right |-> right]
    ELSE [age |-> left.age,
          name |-> IF "name" \in DOMAIN right THEN right.name ELSE Undefined]

\* joinMap.get(key): the last document of rightData stored under the key
JoinMapGet(rightData, rightJoinKey, key) ==
    LET at == {i \in 1..Len(rightData) : rightData[i][rightJoinKey] = key}
    IN  IF at = {} THEN EmptyDocument
        ELSE rightData[CHOOSE i \in at : \A j \in at : j <= i]

\* ResultSet.eqJoin: [this, collection, threw].  The identifier tested in
\* the second instanceof is not declared anywhere, so evaluating that test
\* throws a ReferenceError: it is reached whenever joinData is no store.
eqJoin(this, joinData, leftJoinKey, rightJoinKey, mapFunction, dataOptions) ==
    LET left == data_(this, dataOptions)
        leftData == left.result
        failed == [this |-> left.this, collection |-> collection, threw |-> TRUE]
    IN  IF left.threw THEN failed
        ELSE IF joinData.kind # "collection" THEN failed
        ELSE IF \E j \in 1..Len(leftData) : leftData[j].doc = Undefined THEN failed
        ELSE [this |-> NewResultSet,
              collection |->
                  [name |-> "joinData",
                   data |-> [j \in 1..Len(leftData) |->
                               ApplyJoinMap(mapFunction, leftData[j].doc,
                                   JoinMapGet(joinData.docs, rightJoinKey,
                                              leftData[j].doc[leftJoinKey]))]],
              threw |-> FALSE]

\* right-hand documents: two that share the join key "age"
RightOne == [age |-> Num(1), name |-> Num(1)]
RightTwo == [age |-> Num(1), name |-> Num(2)]
RightDocs == {<<>>, <<RightOne, RightTwo>>, <<RightTwo, RightOne>>}
JoinInputs ==
    {ArrayData(<<RightOne, RightTwo>>), ResultSetData(<<RightOne, RightTwo>>)}
        \cup {CollectionData(docs) : docs \in RightDocs}

EqJoin(joinData, mapFunction) ==
    /\ last = Idle /\ Bound
    /\ \E r \in {eqJoin(rs, joinData, "age", "age", mapFunction, NoDataOptions)} :
        /\ rs' = r.this
        /\ collection' = r.collection
        /\ last' = [op |-> "eqJoin", joinData |-> joinData, mapFunction |-> mapFunction,
                    pre |-> rs, threw |-> r.threw]
        /\ UNCHANGED <<data, binaryIndices, flags, other, shared>>

\* ---------------------------------------------------------------- map
\* The mapFunction argument: x => ({ age: x.name, name: x.age }), which
\* throws when handed undefined, or x => ({})
SwapFunction == [reads |-> TRUE]
EmptyFunction == [reads |-> FALSE]
ApplyMap(mapFunction, doc) ==
    IF mapFunction.reads THEN [age |-> doc.name, name |-> doc.age] ELSE EmptyDocument

\* ResultSet.map: [this, result, collection, threw]; result is the new chain
\* and collection the new store it is bound to
mapOf(this, source, mapFunction) ==
    IF source.threw
          \/ (mapFunction.reads
                /\ \E j \in 1..Len(source.result) : source.result[j].doc = Undefined)
    THEN [this |-> source.this, result |-> NewResultSet,
          collection |-> TheStore, threw |-> TRUE]
    ELSE [this |-> source.this,
          result |-> [filteredRows |-> <<>>, filterInitialized |-> FALSE],
          collection |->
              [name |-> "mappedData",
               data |-> [j \in 1..Len(source.result) |->
                           ApplyMap(mapFunction, source.result[j].doc)]],
          threw |-> FALSE]

\* a faulty map that maps every document of the store
mapWholeStore(this, mapFunction, dataOptions) ==
    mapOf(this, data_(NewResultSet, dataOptions), mapFunction)

map(this, mapFunction, dataOptions) ==
    mapOf(this, data_(this, dataOptions), mapFunction)

Map(mapFunction) ==
    /\ last = Idle /\ Bound
    /\ \E r \in {map(rs, mapFunction, NoDataOptions)} :
        /\ rs' = r.this
        /\ last' = [op |-> "map", mapFunction |-> mapFunction, pre |-> rs,
                    result |-> r.result, collection |-> r.collection, threw |-> r.threw]
        /\ UNCHANGED <<data, binaryIndices, flags, other, shared, collection>>

\* ------------------------------------------------------------- update
\* The updateFunction argument: doc => { doc[field] = val }, or a value that
\* is no function
SetField(f, v) == [isFunction |-> TRUE, field |-> f, val |-> v]
NotAnUpdateFunction == [isFunction |-> FALSE, field |-> "", val |-> Undefined]
ApplyUpdate(updateFunction, doc) == [doc EXCEPT ![updateFunction.field] = updateFunction.val]

\* the indices after Collection.update / removeBatchByPositions changed the
\* documents to docs: patched in adaptive mode, flagged dirty otherwise
IndicesAfterChange(idx, docs) ==
    [f \in DOMAIN idx |->
        IF adaptiveBinaryIndices
        THEN [values |-> BuildIndex(docs, f), dirty |-> FALSE]
        ELSE [idx[f] EXCEPT !.dirty = TRUE]]

\* the loop of update over the rows: [this, data, idx, calls, threw]; calls
\* lists the calls of Collection.update, each with the row of its document
\* and whether it was handed a clone.  A row without a document ends the
\* loop with a TypeError, the earlier updates staying in the store.
updateRows(this, idx, updateFunction, rows) ==
    LET cloned == ~disableFreeze \/ cloneObjects \/ ~disableDeltaChangesApi
        bad == {i \in 1..Len(rows) : ~HasDoc(rows[i])}
        done == IF bad = {} THEN Len(rows)
                ELSE (CHOOSE i \in bad : \A j \in bad : i <= j) - 1
        touched == {rows[i] : i \in 1..done}
        docs == [k \in 1..Len(data) |->
                    IF (k - 1) \in touched THEN ApplyUpdate(updateFunction, data[k])
                    ELSE data[k]]
    IN  [this |-> [this EXCEPT !.filteredRows = rows],
         data |-> docs,
         idx |-> IF done > 0 THEN IndicesAfterChange(idx, docs) ELSE idx,
         calls |-> [i \in 1..done |-> [row |-> rows[i], cloned |-> cloned]],
         threw |-> bad # {}]

\* a faulty update that does not fill the rows of an Unfiltered chain
updateFilteredRowsOnly(this, idx, updateFunction) ==
    IF ~updateFunction.isFunction
    THEN [this |-> this, data |-> data, idx |-> idx, calls |-> <<>>, threw |-> TRUE]
    ELSE updateRows(this, idx, updateFunction, this.filteredRows)

\* ResultSet.update: [this, data, idx, calls, threw]
update(this, idx, updateFunction) ==
    IF ~updateFunction.isFunction
    THEN [this |-> this, data |-> data, idx |-> idx, calls |-> <<>>, threw |-> TRUE]
    ELSE updateRows(this, idx, updateFunction,
                    IF ~this.filterInitialized /\ Len(this.filteredRows) = 0
                    THEN prepareFullDocIndex
                    ELSE this.filteredRows)

UpdateFunctions == {SetField("age", Num(1)), SetField("name", Num(MaxNum)), NotAnUpdateFunction}

Update(updateFunction) ==
    /\ last = Idle /\ Bound
    /\ \E r \in {update(rs, binaryIndices, updateFunction)} :
        /\ rs' = r.this
        /\ data' = r.data
        /\ binaryIndices' = r.idx
        /\ last' = [op |-> "update", updateFunction |-> updateFunction, pre |-> rs,
                    before |-> data, calls |-> r.calls, threw |-> r.threw]
        /\ UNCHANGED <<flags, other, shared, collection>>

\* ------------------------------------------------------------- remove
\* Collection.removeBatchByPositions(positions): the documents at the
\* positions are deleted and the sequence compacted; a position that
\* addresses no document selects nothing
removeBatchByPositions(docs, positions) ==
    SelectSeq([k \in 1..Len(docs) |-> [pos |-> k - 1, doc |-> docs[k]]],
              LAMBDA e : e.pos \notin Range(positions))

\* the body of remove for the positions it hands to the store:
\* [this, data, idx, positions]
removeRows(this, idx, rows) ==
    LET left == removeBatchByPositions(data, rows)
        docs == [k \in 1..Len(left) |-> left[k].doc]
    IN  [this |-> [this EXCEPT !.filteredRows = <<>>],
         data |-> docs,
         idx |-> IF docs # data THEN IndicesAfterChange(idx, docs) ELSE idx,
         positions |-> rows]

\* a faulty remove that does not fill the rows of an Unfiltered chain
removeFilteredRowsOnly(this, idx) == removeRows(this, idx, this.filteredRows)

\* a faulty remove that takes every chain without rows for the whole store
removeWhenEmpty(this, idx) ==
    removeRows(this, idx,
               IF Len(this.filteredRows) = 0 THEN prepareFullDocIndex
               ELSE this.filteredRows)

\* ResultSet.remove: [this, data, idx, positions]
remove(this, idx) ==
    removeRows(this, idx,
               IF ~this.filterInitialized /\ Len(this.filteredRows) = 0
               THEN prepareFullDocIndex
               ELSE this.filteredRows)

Remove ==
    /\ last = Idle /\ Bound
    /\ \E r \in {remove(rs, binaryIndices)} :
        /\ rs' = r.this
        /\ data' = r.data
        /\ binaryIndices' = r.idx
        /\ shared' = FALSE
        /\ last' = [op |-> "remove", pre |-> rs, before |-> data, branch |-> other,
                    positions |-> r.positions]
        /\ UNCHANGED <<flags, other, collection>>

\* ---------------------------------------------------------- transform
\* a step field that the caller left out
NoProperty == ""
NoKey == ""
NoJoinData == [kind |-> "none", docs |-> <<>>]

\* The steps of a pipeline, by type
FindStep(q) == [type |-> "find", query |-> q]
WhereStep(f) == [type |-> "where", filter |-> f]
SimpleSortStep(p, d, o) == [type |-> "simpleSort", property |-> p, desc |-> d, sortOptions |-> o]
CompoundSortStep(ps) == [type |-> "compoundSort", properties |-> ps]
SortStep(cmp) == [type |-> "sort", compareFunction |-> cmp]
LimitStep(n) == [type |-> "limit", count |-> n]
OffsetStep(n) == [type |-> "offset", position |-> n]
MapStep(fn) == [type |-> "map", mapFunction |-> fn]
EqJoinStepWith(jd, l, r) ==
    [type |-> "eqJoin", joinData |-> jd, leftJoinKey |-> l, rightJoinKey |-> r]
EqJoinStep(jd) == EqJoinStepWith(jd, "age", "age")
MapReduceStep(fn) == [type |-> "mapReduce", mapFunction |-> fn]
UpdateStep(fn) == [type |-> "update", updateFunction |-> fn]
RemoveStep == [type |-> "remove"]

\* the step is refused by transform itself, before the chain is called
RefusedStep(step) ==
    \/ step.type = "simpleSort" /\ step.property = NoProperty
    \/ /\ step.type = "eqJoin"
       /\ \/ step.leftJoinKey = NoKey
          \/ step.rightJoinKey = NoKey
          \/ step.joinData = NoJoinData

\* mapReduce(mapFunction, docs => docs.length): [this, value, threw]
mapReduce(this, mapFunction) ==
    LET m == map(this, mapFunction, NoDataOptions)
    IN  [this |-> m.this,
         value |-> IF m.threw THEN 0 ELSE Len(m.collection.data),
         threw |-> m.threw]

\* What transform hands back: the receiver, another chain (with the store it
\* is bound to when that is a new one) or the value of a reduction
ReturnsThis == [kind |-> "this"]
ReturnsChain(chain) == [kind |-> "chain", chain |-> chain]
ReturnsValue(v) == [kind |-> "value", value |-> v]

\* The steps after an Update or Remove step run against the documents that
\* step left.  The pipelines taken here have such a step last, or followed
\* by a step that transform refuses.
WritesThenRefused(steps) ==
    \A i \in 1..(Len(steps) - 1) :
        steps[i].type \in {"update", "remove"} => RefusedStep(steps[i + 1])

\* ResultSet.transform from step i on: [this, data, idx, collection, ret,
\* evaluated, threw]; evaluated is the number of steps entered
RECURSIVE transformFrom(_, _, _, _)
transformFrom(this, idx, steps, i) ==
    IF i > Len(steps)
    THEN [this |-> this, data |-> data, idx |-> idx, collection |-> collection,
          ret |-> ReturnsThis, evaluated |-> Len(steps), threw |-> FALSE]
    ELSE
    LET step == steps[i]
        Stop(t, x, c, ret, threw) ==
            [this |-> t, data |-> data, idx |-> x, collection |-> c, ret |-> ret,
             evaluated |-> i, threw |-> threw]
        \* r is the outcome of the step, as a value
        After(r) == IF r.threw THEN Stop(r.this, r.idx, collection, ReturnsThis, TRUE)
                    ELSE transformFrom(r.this, r.idx, steps, i + 1)
        Go(outcome) == CHOOSE out \in {After(r) : r \in {outcome}} : TRUE
        \* r is the outcome of a step that writes to the store
        AfterWrite(r) ==
            IF r.threw
            THEN [Stop(r.this, r.idx, collection, ReturnsThis, TRUE) EXCEPT !.data = r.data]
            ELSE IF r.data = data
            THEN transformFrom(r.this, r.idx, steps, i + 1)
            ELSE [this |-> r.this, data |-> r.data, idx |-> r.idx,
                  collection |-> collection, ret |-> ReturnsThis,
                  evaluated |-> IF i = Len(steps) THEN i ELSE i + 1,
                  threw |-> i < Len(steps)]
        Wrote(outcome) == CHOOSE out \in {AfterWrite(r) : r \in {outcome}} : TRUE
    IN  CASE step.type = "find" ->
               Go(find(this, idx, step.query, FALSE))
          [] step.type = "where" ->
               LET r == where(this, step.filter)
               IN  Go([this |-> r.this, idx |-> idx, threw |-> r.threw])
          [] step.type = "simpleSort" ->
               IF step.property = NoProperty
               THEN Stop(this, idx, collection, ReturnsThis, TRUE)
               ELSE Go(simpleSort(this, idx, step.property,
                                  IF step.desc THEN BooleanOption(TRUE)
                                  ELSE step.sortOptions))
          [] step.type = "compoundSort" ->
               Go(compoundSort(this, idx, step.properties))
          [] step.type = "sort" ->
               LET r == sort(this, LAMBDA d1, d2 :
                                     ApplyCompare(step.compareFunction, d1, d2))
               IN  Go([this |-> r.this, idx |-> idx, threw |-> r.threw])
          [] step.type = "limit" ->
               LET r == limit(this, step.count)
               IN  Stop(r.this, idx, collection, ReturnsChain(r.copy), FALSE)
          [] step.type = "offset" ->
               LET r == offset(this, step.position)
               IN  Stop(r.this, idx, collection, ReturnsChain(r.copy), FALSE)
          [] step.type = "map" ->
               LET r == map(this, step.mapFunction, NoDataOptions)
               IN  Stop(r.this, idx, collection,
                        IF r.threw THEN ReturnsThis ELSE ReturnsChain(r.result), r.threw)
          [] step.type = "eqJoin" ->
               IF RefusedStep(step)
               THEN Stop(this, idx, collection, ReturnsThis, TRUE)
               ELSE LET r == eqJoin(this, step.joinData, step.leftJoinKey,
                                    step.rightJoinKey, DefaultMapFunction, NoDataOptions)
                    IN  Stop(r.this, idx, r.collection, ReturnsThis, r.threw)
          [] step.type = "mapReduce" ->
               LET r == mapReduce(this, step.mapFunction)
               IN  Stop(r.this, idx, collection,
                        IF r.threw THEN ReturnsThis ELSE ReturnsValue(r.value), r.threw)
          [] step.type = "update" ->
               Wrote(update(this, idx, step.updateFunction))
          [] step.type = "remove" ->
               LET r == remove(this, idx)
               IN  Wrote([this |-> r.this, data |-> r.data, idx |-> r.idx, threw |-> FALSE])

\* ResultSet.transform(steps)
transform(this, idx, steps) == transformFrom(this, idx, steps, 1)

Pipelines ==
    {<<>>,
     <<FindStep(FieldsQuery(<<FieldClause("age", "$gte", QueryValue)>>)), LimitStep(1)>>,
     <<FindStep(NoQuery), LimitStep(1), WhereStep(ConstFilter("true"))>>,
     <<SimpleSortStep("name", TRUE, NoOptions), OffsetStep(1), LimitStep(0)>>,
     <<CompoundSortStep(<<BareProperty("name"), PairProperty("age", TRUE)>>),
       MapStep(SwapFunction), LimitStep(0)>>,
     <<EqJoinStep(CollectionData(<<RightOne, RightTwo>>)), FindStep(NoQuery)>>,
     <<MapReduceStep(EmptyFunction), LimitStep(1)>>,
     <<SimpleSortStep(NoProperty, FALSE, NoOptions), LimitStep(1)>>,
     <<EqJoinStepWith(NoJoinData, "age", "age")>>,
     <<EqJoinStepWith(CollectionData(<<RightOne, RightTwo>>), NoKey, "age")>>,
     <<EqJoinStepWith(CollectionData(<<RightOne, RightTwo>>), "age", NoKey)>>,
     <<RemoveStep, SimpleSortStep(NoProperty, FALSE, NoOptions)>>,
     <<WhereStep(NotAFunction), RemoveStep>>,
     <<SortStep(CompareBy("age")), UpdateStep(SetField("name", Num(MaxNum)))>>}

Transform(steps) ==
    /\ last = Idle /\ Bound
    /\ WritesThenRefused(steps)
    /\ \E r \in {transform(rs, binaryIndices, steps)} :
        /\ rs' = r.this
        /\ data' = r.data
        /\ binaryIndices' = r.idx
        /\ collection' = r.collection
        /\ last' = [op |-> "transform", steps |-> steps, pre |-> rs, before |-> data,
                    ret |-> r.ret, evaluated |-> r.evaluated, threw |-> r.threw]
        /\ UNCHANGED <<flags, other, shared>>

\* Collection.chain(): the application takes a new chain of the store
Chain ==
    /\ last = Idle
    /\ ~Bound
    /\ collection' = TheStore
    /\ rs' = NewResultSet
    /\ last' = Idle
    /\ UNCHANGED <<data, binaryIndices, flags, other, shared>>

\* the caller goes on after a call: the record of the call is dropped
Return ==
    /\ last # Idle
    /\ last' = Idle
    /\ UNCHANGED <<data, binaryIndices, flags, other, shared, collection, rs>>

\* ResultSet.mapReduce(mapFunction, reduceFunction), the reduce function
\* counting the mapped documents
MapReduce(mapFunction) ==
    /\ last = Idle /\ Bound
    /\ \E r \in {mapReduce(rs, mapFunction)} :
        /\ rs' = r.this
        /\ last' = [op |-> "mapReduce", mapFunction |-> mapFunction, pre |-> rs,
                    value |-> r.value, threw |-> r.threw]
        /\ UNCHANGED <<data, binaryIndices, flags, other, shared, collection>>

Next ==
    \/ \E doc \in Documents : Insert(doc)
    \/ \E f \in IndexableFields : EnsureIndex(f)
    \/ Reset
    \/ Return
    \/ \E n \in 0..MaxDocs : Limit(n)
    \/ \E n \in 0..MaxDocs : Offset(n)
    \/ \E q \in Queries, firstOnly \in BOOLEAN : Find(q, firstOnly)
    \/ \E cs \in ClauseLists : FindAnd(cs)
    \/ \E cs \in ClauseLists : FindOr(cs)
    \/ \E filter \in Filters : Where(filter)
    \/ \E property \in Fields, options \in SortOptions : SimpleSort(property, options)
    \/ \E properties \in CompoundProperties : CompoundSort(properties)
    \/ Sort(CompareBy("age"))
    \/ \E dataOptions \in AllDataOptions : Data(dataOptions)
    \/ Count
    \/ Copy
    \/ \E joinData \in JoinInputs, mapFunction \in {DefaultMapFunction, ProjectMapFunction} :
          EqJoin(joinData, mapFunction)
    \/ Chain
    \/ \E mapFunction \in {SwapFunction, EmptyFunction} : Map(mapFunction)
    \/ \E mapFunction \in {SwapFunction, EmptyFunction} : MapReduce(mapFunction)
    \/ \E updateFunction \in UpdateFunctions : Update(updateFunction)
    \/ Remove
    \/ \E steps \in Pipelines : Transform(steps)

Spec == Init /\ [][Next]_vars

\* ------------------------------------------------- configured stores
\* The store constructed with options: every combination of cloneObjects,
\* disableFreeze and disableDeltaChangesApi, under the operations whose
\* course the three flags decide
InitConfigured ==
    /\ data = <<>>
    /\ binaryIndices = <<>>
    /\ adaptiveBinaryIndices \in BOOLEAN
    /\ cloneObjects \in BOOLEAN
    /\ disableFreeze \in BOOLEAN
    /\ disableDeltaChangesApi \in BOOLEAN
    /\ collection = TheStore
    /\ rs = NewResultSet
    /\ other = NewResultSet
    /\ shared = FALSE
    /\ last = Idle

NextConfigured ==
    \/ \E doc \in Documents : Insert(doc)
    \/ \E f \in IndexableFields : EnsureIndex(f)
    \/ Reset
    \/ Return
    \/ \E firstOnly \in BOOLEAN : Find(NoQuery, firstOnly)
    \/ \E property \in Fields : SimpleSort(property, BooleanOption(TRUE))
    \/ \E dataOptions \in AllDataOptions : Data(dataOptions)
    \/ \E updateFunction \in UpdateFunctions : Update(updateFunction)
    \/ Remove

SpecConfigured == InitConfigured /\ [][NextConfigured]_vars

\* --------------------------------------------------- two chains, one store
\* ResultSet.branch: the application keeps a copy of the chain, a second
\* chain bound to the same store
\* a copy that hands the receiver's row array to the new chain instead of
\* slicing it
branchSharingRows(this) ==
    [chain |-> copy(this), shared |-> Len(this.filteredRows) > 0]

\* ResultSet.branch, the alias of copy: the chain returned, and whether its
\* filteredRows is the receiver's array object; slice() makes a new array
branch(this) ==
    [chain |-> copy(this), shared |-> FALSE]

\* the application keeps a branch of the chain
Branch ==
    /\ last = Idle /\ Bound
    /\ other' = branch(rs).chain
    /\ shared' = branch(rs).shared
    /\ other' # other
    /\ last' = Idle
    /\ UNCHANGED <<data, binaryIndices, flags, collection, rs>>

\* the store under a chain and a branch of it
NextShared ==
    \/ \E doc \in Documents : Insert(doc)
    \/ Reset
    \/ Return
    \/ \E firstOnly \in BOOLEAN : Find(NoQuery, firstOnly)
    \/ \E n \in 0..MaxDocs : Offset(n)
    \/ Branch
    \/ Remove
    \/ \E cs \in ClauseLists : FindOr(cs)
    \/ \E filter \in Filters : Where(filter)
    \/ \E property \in Fields : SimpleSort(property, NoOptions)
    \/ Sort(CompareBy("age"))

SpecShared == Init /\ [][NextShared]_vars

\* ------------------------------------------------- regex precompilation
\* find({ $regex: "a" })
RegexQuery == FieldsQuery(<<NameClause("$regex", "a")>>)

\* precompileQuery on the values of PrecompileInputs, and the one place of
\* the chain that calls it
NextPrecompile ==
    \/ \E doc \in Documents : Insert(doc)
    \/ Return
    \/ \E firstOnly \in BOOLEAN : Find(RegexQuery, firstOnly)
    \/ \E in \in PrecompileInputs : PrecompileQuery(in[1], in[2])

SpecPrecompile == Init /\ [][NextPrecompile]_vars

\* ------------------------------------------------------------- claims
\* the row sequence a chain stands for: every position when it is Unfiltered
Represented(this) ==
    IF ~this.filterInitialized /\ Len(this.filteredRows) = 0
    THEN prepareFullDocIndex
    ELSE this.filteredRows

Unfiltered(this) == ~this.filterInitialized /\ Len(this.filteredRows) = 0

\* every row of the chain addresses a document of the store
RowsInStore(this) == \A i \in 1..Len(this.filteredRows) : HasDoc(this.filteredRows[i])

\* the documents at the rows, in row order
DocsOf(rows) == [i \in 1..Len(rows) |-> DocAt(rows[i])]

Ascending(rows) == \A i, j \in 1..Len(rows) : i < j => rows[i] < rows[j]
NoDuplicates(rows) == \A i, j \in 1..Len(rows) : i # j => rows[i] # rows[j]

\* what a clause { field: { op: v } } or { field: v } asks of a document
ClauseHolds(doc, c) ==
    IF c.form = "op" THEN Operators(c.op, doc[c.key], c.val) ELSE doc[c.key] = c.val
IsFieldClause(c) == c.key \in Fields
\* the field a clause names
ClauseField(c) == IF c.key \in Fields THEN c.key ELSE c.name

\* C1: limit(n) and offset(n) never mutate the receiver: whatever the chain
\* state and n, filteredRows and filterInitialized are the same after the
\* call as before it.
C1_LimitOffsetLeaveReceiver ==
    last.op \in {"limit", "offset"} => rs = last.pre

\* C2: find with one field clause on an Unfiltered chain over a non-empty
\* store leaves the chain Filtered with exactly the positions of the
\* documents satisfying the clause, in ascending store position.
C2_FindSingleClauseScans ==
    (/\ last.op = "find"
     /\ ~last.firstOnly
     /\ last.query.kind = "fields"
     /\ Len(last.query.clauses) = 1
     /\ IsFieldClause(last.query.clauses[1])
     /\ Unfiltered(last.pre)
     /\ Len(data) > 0)
    => /\ ~last.threw
       /\ rs.filterInitialized
       /\ rs.filteredRows =
            SelectSeq(prepareFullDocIndex,
                      LAMBDA p : ClauseHolds(DocAt(p), last.query.clauses[1]))

\* C3: a find of one clause naming a field that has a Binary Index yields the
\* same set of positions as the same find on the same store without the
\* index.
C3_IndexPathEqualsScanPath ==
    (/\ last.op = "find"
     /\ ~last.firstOnly
     /\ last.query.kind = "fields"
     /\ Len(last.query.clauses) = 1
     /\ ClauseField(last.query.clauses[1]) \in DOMAIN binaryIndices
     /\ Unfiltered(last.pre))
    => LET scan == find(last.pre, <<>>, last.query, FALSE)
       IN  /\ last.threw = scan.threw
           /\ Range(rs.filteredRows) = Range(scan.this.filteredRows)

\* C4: find with more than one top-level field key is an implicit AND: the
\* chain then stands for exactly the rows of its prior result set that
\* satisfy every clause.
C4_ImplicitAnd ==
    (/\ last.op = "find"
     /\ ~last.firstOnly
     /\ last.query.kind = "fields"
     /\ Len(last.query.clauses) > 1
     /\ Len(data) > 0
     /\ RowsInStore(last.pre))
    => /\ ~last.threw
       /\ Range(Represented(rs)) =
            {p \in Range(Represented(last.pre)) :
                \A i \in 1..Len(last.query.clauses) :
                    ClauseHolds(DocAt(p), last.query.clauses[i])}

\* C5: on a non-empty store find({$and: cs}) leaves the chain as findAnd(cs)
\* does, and find({$or: cs}) as findOr(cs) does.
C5_FindRecursesIntoCombinators ==
    (/\ last.op = "find"
     /\ ~last.firstOnly
     /\ last.query.kind \in {"$and", "$or"}
     /\ Len(data) > 0)
    => LET direct == IF last.query.kind = "$and"
                     THEN findAnd(last.pre, binaryIndices, ArrayArg(last.query.clauses))
                     ELSE findOr(last.pre, binaryIndices, ArrayArg(last.query.clauses))
       IN  last.threw = direct.threw /\ rs = direct.this

\* C6: findOr(clauses) leaves the chain Filtered with every row of the prior
\* result set that at least one clause matches, each once.
C6_FindOrIsUnion ==
    (/\ last.op = "findOr"
     /\ \A i \in 1..Len(last.clauses) : IsFieldClause(last.clauses[i])
     /\ Len(data) > 0
     /\ RowsInStore(last.pre))
    => /\ ~last.threw
       /\ rs.filterInitialized
       /\ NoDuplicates(rs.filteredRows)
       /\ Range(rs.filteredRows) =
            {p \in Range(Represented(last.pre)) :
                \E i \in 1..Len(last.clauses) : ClauseHolds(DocAt(p), last.clauses[i])}

\* C7: findAnd(clauses) narrows clause by clause: the chain then stands for
\* the rows of the prior result set that satisfy all the clauses.
C7_FindAndNarrows ==
    (/\ last.op = "findAnd"
     /\ \A i \in 1..Len(last.clauses) : IsFieldClause(last.clauses[i])
     /\ Len(data) > 0
     /\ RowsInStore(last.pre))
    => /\ ~last.threw
       /\ Range(Represented(rs)) =
            {p \in Range(Represented(last.pre)) :
                \A i \in 1..Len(last.clauses) : ClauseHolds(DocAt(p), last.clauses[i])}

\* C8: where(predicate) keeps exactly the documents of the current result set
\* for which the predicate holds, listed in ascending document order.
C8_WhereKeepsAscending ==
    (/\ last.op = "where"
     /\ last.filter.isFunction
     /\ RowsInStore(last.pre)
     /\ Ascending(Represented(last.pre)))
    => /\ ~last.threw
       /\ rs.filteredRows =
            SelectSeq(Represented(last.pre),
                      LAMBDA p : FilterHolds(last.filter, DocAt(p)))

\* C9: the documents in the order simpleSort(field, desc) produces equal
\* those in the order a generic stable comparator sort of the same rows on
\* that field and direction produces.
C9_SimpleSortEqualsComparatorSort ==
    (/\ last.op = "simpleSort"
     /\ last.options.kind \in {"none", "boolean"}
     /\ RowsInStore(last.pre))
    => /\ ~last.threw
       /\ RowsInStore(rs)
       /\ DocsOf(Represented(rs)) =
            DocsOf(SortRows(Represented(last.pre),
                            LAMBDA a, b : sortHelper(DocAt(a)[last.property],
                                                     DocAt(b)[last.property],
                                                     last.options.desc)))

\* C10: simpleSort honours the options object: simpleSort(field, {desc: d})
\* orders the rows as simpleSort(field, d) does.
C10_SortOptionsObjectHonoured ==
    (/\ last.op = "simpleSort"
     /\ last.options.kind = "object"
     /\ ~last.options.disableIndexIntersect
     /\ ~last.options.forceIndexIntersect
     /\ ~last.options.useJavascriptSorting)
    => rs.filteredRows =
         simpleSort(last.pre, binaryIndices, last.property,
                    BooleanOption(last.options.desc)).this.filteredRows

\* C11: compoundSort with two or more entries orders the rows
\* lexicographically, fields compared left to right, each in its own
\* direction (a bare name ascending), ties cascading to the next field and
\* rows equal on every field keeping their order; with one entry it leaves
\* the chain as simpleSort of that field and direction does.
C11_CompoundSortLexicographic ==
    (/\ last.op = "compoundSort"
     /\ Len(last.properties) >= 1
     /\ RowsInStore(last.pre))
    => LET ps == last.properties
           Dir(x, d) == IF d THEN 0 - x ELSE x
           \* -1, 0, 1 as the documents at rows a and b compare on field i
           Field(a, b, i) ==
               LET ra == Rank(DocAt(a)[ps[i].property])
                   rb == Rank(DocAt(b)[ps[i].property])
               IN  Dir(IF ra < rb THEN -1 ELSE IF ra > rb THEN 1 ELSE 0, ps[i].desc)
           Lex(a, b) ==
               IF \A i \in 1..Len(ps) : Field(a, b, i) = 0 THEN 0
               ELSE Field(a, b, CHOOSE i \in 1..Len(ps) :
                                  /\ Field(a, b, i) # 0
                                  /\ \A j \in 1..(i - 1) : Field(a, b, j) = 0)
       IN  /\ ~last.threw
           /\ IF Len(ps) = 1
              THEN rs = simpleSort(last.pre, binaryIndices, ps[1].property,
                                   BooleanOption(ps[1].desc)).this
              ELSE rs.filteredRows = SortRows(Represented(last.pre), Lex)

\* a sort on two fields has reordered rows that tie on the first
C11_Witness ==
    /\ last.op = "compoundSort"
    /\ Len(last.properties) = 2
    /\ ~last.threw
    /\ Len(rs.filteredRows) = 2
    /\ RowsInStore(rs)
    /\ rs.filteredRows # Represented(last.pre)
    /\ DocAt(0)[last.properties[1].property] = DocAt(1)[last.properties[1].property]

\* C12: copy() returns a new chain whose filteredRows and filterInitialized
\* equal the receiver's, so copy().data() equals original.data() under every
\* data option.
C12_CopyEqualsOriginal ==
    last.op = "copy"
    => /\ last.ret.filteredRows = last.pre.filteredRows
       /\ last.ret.filterInitialized = last.pre.filterInitialized
       /\ \A o \in AllDataOptions :
            /\ data_(last.ret, o).result = data_(last.pre, o).result
            /\ data_(last.ret, o).threw = data_(last.pre, o).threw

\* a Filtered chain that holds no row, over a non-empty store, was copied
C12_Witness ==
    /\ last.op = "copy"
    /\ last.pre.filterInitialized
    /\ Len(last.pre.filteredRows) = 0
    /\ Len(data) > 0
    /\ data_(last.ret, NoDataOptions).result = <<>>

\* the right-hand document the spec pairs a left document with: the last one
\* of joinData whose "age" equals the left document's, else the empty one
ExpectedRight(docs, leftDoc) ==
    IF \A i \in 1..Len(docs) : docs[i].age # leftDoc.age THEN EmptyDocument
    ELSE docs[CHOOSE i \in 1..Len(docs) :
                /\ docs[i].age = leftDoc.age
                /\ \A j \in (i + 1)..Len(docs) : docs[j].age # leftDoc.age]

\* C13: eqJoin pairs each left document with the last right-side document
\* whose join key equals the left document's, and a left document without a
\* match with an empty document.
C13_EqJoinLastRightWins ==
    (/\ last.op = "eqJoin"
     /\ ~last.mapFunction.given
     /\ RowsInStore(last.pre)
     /\ Len(Represented(last.pre)) > 0
     /\ Len(last.joinData.docs) > 0)
    => /\ ~last.threw
       /\ collection # TheStore
       /\ collection.data =
            [j \in 1..Len(Represented(last.pre)) |->
                [left |-> DocAt(Represented(last.pre)[j]),
                 right |-> ExpectedRight(last.joinData.docs,
                                         DocAt(Represented(last.pre)[j]))]]

\* C14: after eqJoin returns, the chain is bound to a new ephemeral store
\* with one mapped row per left document and is Unfiltered, whether the
\* right-hand side is an array, a chain or a store.
C14_EqJoinRebindsReceiver ==
    (/\ last.op = "eqJoin"
     /\ RowsInStore(last.pre))
    => /\ ~last.threw
       /\ collection # TheStore
       /\ Len(collection.data) = Len(Represented(last.pre))
       /\ rs = NewResultSet

\* C15: map(mapFn) returns a new Unfiltered chain over a new ephemeral store
\* that holds mapFn of each document of the receiver's result set in order,
\* and leaves the receiver bound to its store with its filteredRows
\* unchanged.
C15_MapLeavesReceiver ==
    (/\ last.op = "map"
     /\ RowsInStore(last.pre))
    => /\ ~last.threw
       /\ last.result = NewResultSet
       /\ last.collection # TheStore
       /\ last.collection.data =
            [j \in 1..Len(Represented(last.pre)) |->
                ApplyMap(last.mapFunction, DocAt(Represented(last.pre)[j]))]
       /\ collection = TheStore
       /\ rs.filteredRows = last.pre.filteredRows

\* a Filtered chain of one row over a store of two documents was mapped
C15_Witness ==
    /\ last.op = "map"
    /\ ~last.threw
    /\ last.pre.filterInitialized
    /\ Len(last.pre.filteredRows) = 1
    /\ Len(data) = 2
    /\ Len(last.collection.data) = 1
    /\ rs = last.pre

\* whether data() has to clone under the store's flags and the options
CloningRequired(o) ==
    \/ cloneObjects
    \/ o.forceClones
    \/ o.removeMeta
    \/ ~disableDeltaChangesApi /\ disableFreeze

\* C16: data() returns the stored instances unless cloning is required, which
\* is exactly when cloneObjects is set, forceClones or removeMeta is given, or
\* delta-change tracking is enabled while freezing is disabled; $loki and
\* meta are removed from returned clones only, never from a stored instance.
C16_DataClonesExactlyWhenRequired ==
    (/\ last.op = "data"
     /\ RowsInStore(last.pre))
    => /\ ~last.threw
       /\ Len(last.result) = Len(Represented(last.pre))
       /\ \A i \in 1..Len(last.result) :
            /\ last.result[i].row = Represented(last.pre)[i]
            /\ last.result[i].doc = DocAt(last.result[i].row)
            /\ last.result[i].clone <=> CloningRequired(last.dataOptions)
            /\ ~last.result[i].meta <=> last.dataOptions.removeMeta
            /\ ~last.result[i].meta => last.result[i].clone
       /\ last.stripped = {}

\* data({ forceClones: true }) has returned clones from a store that does
\* not clone by itself
C16_Witness ==
    /\ last.op = "data"
    /\ ~last.threw
    /\ ~cloneObjects /\ disableDeltaChangesApi
    /\ last.dataOptions.forceClones /\ ~last.dataOptions.removeMeta
    /\ Len(last.result) = 2
    /\ \A i \in 1..2 : last.result[i].clone /\ last.result[i].meta

\* C17: update(mutator) applies mutator to every document of the chain
\* (every document of the store if Unfiltered) and calls the store's update
\* once per such document in filteredRows order, on a clone exactly when
\* freezing is enabled, cloneObjects is set or delta-change tracking is
\* enabled.
C17_UpdateEveryDocumentOnce ==
    (/\ last.op = "update"
     /\ last.updateFunction.isFunction
     /\ RowsInStore(last.pre))
    => LET rows == IF Unfiltered(last.pre)
                   THEN [i \in 1..Len(last.before) |-> i - 1]
                   ELSE last.pre.filteredRows
       IN  /\ ~last.threw
           /\ Len(last.calls) = Len(rows)
           /\ \A i \in 1..Len(rows) :
                /\ last.calls[i].row = rows[i]
                /\ last.calls[i].cloned <=>
                      (~disableFreeze \/ cloneObjects \/ ~disableDeltaChangesApi)
           /\ Len(data) = Len(last.before)
           /\ \A k \in 1..Len(data) :
                data[k] = IF (k - 1) \in Range(rows)
                          THEN ApplyUpdate(last.updateFunction, last.before[k])
                          ELSE last.before[k]

\* an Unfiltered chain over two documents was updated in place
C17_Witness ==
    /\ last.op = "update"
    /\ ~last.threw
    /\ Unfiltered(last.pre)
    /\ Len(last.calls) = 2
    /\ ~last.calls[1].cloned
    /\ data # last.before

\* C18: remove() on a chain that represents k documents deletes exactly
\* those k documents: the store shrinks by k, the other documents keep
\* their relative order, and each position is handed to the store's batch
\* removal once.
C18_RemoveDeletesExactlyTheRows ==
    (/\ last.op = "remove"
     /\ \A i \in 1..Len(last.pre.filteredRows) :
          last.pre.filteredRows[i] \in 0..(Len(last.before) - 1))
    => LET rows == IF Unfiltered(last.pre)
                   THEN [i \in 1..Len(last.before) |-> i - 1]
                   ELSE last.pre.filteredRows
           kept == SelectSeq([i \in 1..Len(last.before) |-> i],
                             LAMBDA i : (i - 1) \notin Range(rows))
       IN  /\ Len(data) = Len(last.before) - Len(rows)
           /\ data = [k \in 1..Len(kept) |-> last.before[kept[k]]]
           /\ last.positions = rows
           /\ NoDuplicates(last.positions)

\* a Filtered chain of one row removed the first of two documents
C18_Witness ==
    /\ last.op = "remove"
    /\ last.pre = [filteredRows |-> <<0>>, filterInitialized |-> TRUE]
    /\ Len(last.before) = 2
    /\ data = <<last.before[2]>>

\* C19: immediately after remove() returns the chain is empty: count() is 0
\* and data() returns no documents, whatever operations and inserts came
\* before.
C19_ChainEmptyAfterRemove ==
    last.op = "remove"
    => /\ count(rs) = 0
       /\ data_(rs, NoDataOptions).result = <<>>

\* the step types that hand back something other than the receiver
TerminalTypes == {"limit", "offset", "map", "eqJoin", "mapReduce"}

\* C20: transform runs the steps in list order and the first Limit, Offset,
\* Map, EqJoin or MapReduce step ends the pipeline, no later step being
\* evaluated; for [Find, Limit(1)] where a document of the store satisfies
\* the Find, the returned chain holds exactly one row.
C20_TransformEndsAtTerminalStep ==
    (/\ last.op = "transform"
     /\ ~last.threw
     /\ RowsInStore(last.pre))
    => LET steps == last.steps
           terminal == {i \in 1..Len(steps) : steps[i].type \in TerminalTypes}
       IN  /\ last.evaluated =
                IF terminal = {} THEN Len(steps)
                ELSE CHOOSE i \in terminal : \A j \in terminal : i <= j
           /\ (/\ Len(steps) = 2
               /\ steps[1].type = "find"
               /\ steps[1].query.kind = "fields"
               /\ steps[2] = LimitStep(1)
               /\ Unfiltered(last.pre)
               /\ \E p \in 1..Len(data) :
                     ClauseHolds(data[p], steps[1].query.clauses[1]))
              => /\ last.ret.kind = "chain"
                 /\ Len(last.ret.chain.filteredRows) = 1

\* C21: an argument error raised before any mutation leaves everything
\* untouched: where with a non-function, update with a non-function,
\* compoundSort with an empty field list and a transform whose first step is
\* a SimpleSort without property or an EqJoin without leftJoinKey,
\* rightJoinKey or joinData each raise, and leave the chain's filteredRows
\* and filterInitialized, its store binding and the store's documents as
\* they were before the call.
C21_InvalidArgumentLeavesAllUntouched ==
    (\/ last.op = "where" /\ ~last.filter.isFunction
     \/ last.op = "update" /\ ~last.updateFunction.isFunction
     \/ last.op = "compoundSort" /\ Len(last.properties) = 0
     \/ last.op = "transform" /\ Len(last.steps) > 0 /\ RefusedStep(last.steps[1]))
    => /\ last.threw
       /\ rs = last.pre
       /\ collection = TheStore
       /\ data = last.before

\* where was handed a non-function on an Unfiltered chain over two documents
C21_Witness ==
    /\ last.op = "where"
    /\ ~last.filter.isFunction
    /\ last.threw
    /\ Unfiltered(last.pre)
    /\ Len(data) = 2

\* C22: a transform pipeline has no partial-success state: when a step
\* raises, no later step is executed and neither the store nor the chain is
\* left with the effects of the steps before it.
C22_TransformNoPartialSuccess ==
    (/\ last.op = "transform"
     /\ last.threw
     /\ RowsInStore(last.pre))
    => /\ last.evaluated <= Len(last.steps)
       /\ data = last.before
       /\ rs = last.pre
       /\ collection = TheStore

\* C23: in every reachable state a chain whose filterInitialized flag is
\* false has an empty filteredRows sequence; so has every chain that limit,
\* offset, copy or transform hands back.
C23_UnfilteredHasNoRows ==
    /\ ~rs.filterInitialized => rs.filteredRows = <<>>
    /\ last.op \in {"limit", "offset", "copy"}
         => (~last.ret.filterInitialized => last.ret.filteredRows = <<>>)

\* C24: an Unfiltered chain stands for all documents of the store at the
\* time of the read: count() is the store's current number of documents and
\* data() returns every document of the store in store order, those
\* inserted after the chain was created included.
C24_UnfilteredReadsWholeStore ==
    /\ (last.op = "count" /\ Unfiltered(last.pre)) => last.ret = Len(data)
    /\ (last.op = "data" /\ Unfiltered(last.pre))
         => /\ ~last.threw
            /\ Len(last.result) = Len(data)
            /\ \A i \in 1..Len(data) :
                 /\ last.result[i].row = i - 1
                 /\ last.result[i].doc = data[i]
            /\ Unfiltered(rs)

\* data() was called on the chain made of the empty store after two inserts
C24_Witness ==
    /\ last.op = "data"
    /\ Unfiltered(last.pre)
    /\ Len(data) = 2
    /\ Len(last.result) = 2
    /\ last.result[2].doc = data[2]

\* C25: in every reachable state count() equals the length of the array
\* data() returns for the same chain at that moment.
C25_CountEqualsDataLength ==
    Bound => count(rs) = Len(data_(rs, NoDataOptions).result)

\* whether the query is one of field clauses, alone or under $and / $or
FieldQuery(q) ==
    q.kind = "none" \/ \A i \in 1..Len(q.clauses) : IsFieldClause(q.clauses[i])

\* what such a query asks of a document
Matches(q, doc) ==
    CASE q.kind = "none" -> TRUE
      [] q.kind = "$or" -> \E i \in 1..Len(q.clauses) : ClauseHolds(doc, q.clauses[i])
      [] OTHER -> \A i \in 1..Len(q.clauses) : ClauseHolds(doc, q.clauses[i])

\* C26: find(query, firstOnly = true) leaves the chain Filtered with at most
\* one row, and when the query (or the absence of a query) matches a row of
\* the prior result set, that row is the first matching one in the prior
\* order.
C26_FindFirstOnly ==
    (/\ last.op = "find"
     /\ last.firstOnly
     /\ FieldQuery(last.query)
     /\ RowsInStore(last.pre))
    => LET matching == SelectSeq(Represented(last.pre),
                                 LAMBDA p : Matches(last.query, DocAt(p)))
       IN  /\ ~last.threw
           /\ rs.filterInitialized
           /\ Len(rs.filteredRows) <= 1
           /\ matching # <<>> => rs.filteredRows = <<matching[1]>>

\* C27: chains sharing one store are not re-synchronised: remove() on one
\* chain leaves the filteredRows of a branch on that store as they were
\* while the store is compacted, so that every position the branch holds at
\* or after a removed one is then out of range or addresses a document that
\* stood at a later position when the branch recorded it, the positions
\* before every removed one still addressing their documents.
C27_BranchKeepsStalePositions ==
    (/\ last.op = "remove"
     /\ \A i \in 1..Len(last.pre.filteredRows) :
          last.pre.filteredRows[i] \in 0..(Len(last.before) - 1))
    => LET removed == IF Unfiltered(last.pre)
                      THEN 0..(Len(last.before) - 1)
                      ELSE Range(last.pre.filteredRows)
           kept == SelectSeq([i \in 1..Len(last.before) |-> i - 1],
                             LAMBDA q : q \notin removed)
           held == {p \in Range(other.filteredRows) : p \in 0..(Len(last.before) - 1)}
       IN  /\ other = last.branch
           /\ \A p \in held :
                IF \E q \in removed : q <= p
                THEN \/ ~HasDoc(p)
                     \/ /\ p < Len(kept)
                        /\ kept[p + 1] > p
                        /\ DocAt(p) = last.before[kept[p + 1] + 1]
                ELSE HasDoc(p) /\ DocAt(p) = last.before[p + 1]

\* the chain removed the first of two different documents while a branch
\* held the positions of both: its first position now addresses the other
\* document and its second is out of range
C27_Witness ==
    /\ last.op = "remove"
    /\ last.pre = [filteredRows |-> <<0>>, filterInitialized |-> TRUE]
    /\ Len(last.before) = 2
    /\ last.before[1] # last.before[2]
    /\ other.filteredRows = <<0, 1>>
    /\ DocAt(0) = last.before[2]
    /\ ~HasDoc(1)

\* C28: regex precompilation never mutates caller-supplied input: after
\* precompileQuery the caller's value is, at every nesting level, what it
\* was before the call, the compiled matchers living in the returned value
\* only.
C28_PrecompileLeavesCallerInput ==
    last.op = "precompileQuery" => last.arg = last.value

\* C29: for any chain and n >= 0, limit(n) returns a Filtered chain holding
\* the first n entries of the row sequence the receiver represents (every
\* position in order when it is Unfiltered) and offset(n) a Filtered chain
\* holding the remaining entries, so that the rows of limit(n) followed by
\* those of offset(n) are the sequence the receiver represents.
C29_LimitThenOffsetPartition ==
    last.op \in {"limit", "offset"}
    => LET rows == Represented(last.pre)
           n == IF last.n > Len(rows) THEN Len(rows) ELSE last.n
           head == limit(last.pre, last.n).copy
           tail == offset(last.pre, last.n).copy
       IN  /\ last.ret.filterInitialized
           /\ last.op = "limit" => last.ret = head
           /\ last.op = "offset" => last.ret = tail
           /\ head.filteredRows = SubSeq(rows, 1, n)
           /\ tail.filteredRows = SubSeq(rows, n + 1, Len(rows))
           /\ head.filteredRows \o tail.filteredRows = rows

\* limit(1) was called on an Unfiltered chain over two documents
C29_Witness ==
    /\ last.op = "limit"
    /\ last.n = 1
    /\ Unfiltered(last.pre)
    /\ Len(data) = 2
    /\ last.ret = [filteredRows |-> <<0>>, filterInitialized |-> TRUE]
    /\ offset(last.pre, 1).copy.filteredRows = <<1>>

\* a Filtered chain that holds no row
FilteredEmpty == [filteredRows |-> <<>>, filterInitialized |-> TRUE]

\* C30: an empty but initialized filter is never taken for "everything": on
\* a Filtered chain without rows data() returns no documents, count() is 0,
\* remove() deletes nothing from the store, update() touches no document,
\* and sort, simpleSort, compoundSort, limit and offset leave the result set
\* empty.
C30_FilteredEmptyStaysEmpty ==
    (/\ last.op \in {"data", "count", "remove", "update", "sort", "simpleSort",
                     "compoundSort", "limit", "offset"}
     /\ last.pre = FilteredEmpty)
    => /\ rs = FilteredEmpty
       /\ last.op = "data" => ~last.threw /\ last.result = <<>>
       /\ last.op = "count" => last.ret = 0
       /\ last.op = "remove" => data = last.before /\ last.positions = <<>>
       /\ last.op = "update" => data = last.before /\ last.calls = <<>>
       /\ last.op \in {"limit", "offset"} => last.ret = FilteredEmpty

\* remove() was called on a Filtered chain without rows over two documents
C30_Witness ==
    /\ last.op = "remove"
    /\ last.pre = FilteredEmpty
    /\ Len(last.before) = 2
    /\ data = last.before

\* C31: simpleSort on a Filtered non-empty chain uses index intersection
\* exactly when the field has a Binary Index, intersection is not disabled,
\* and either intersection is forced or store size / filtered-row count is
\* below the threshold, which is 10 by default and 6 when plain comparison
\* sorting is requested; in every other filtered case it falls through to a
\* comparator sort.
C31_IndexIntersectExactlyWhen ==
    (/\ last.op = "simpleSort"
     /\ last.pre.filterInitialized
     /\ Len(last.pre.filteredRows) > 0)
    => LET o == last.options
           threshold == IF o.useJavascriptSorting THEN 6 ELSE 10
           frl == Len(last.pre.filteredRows)
           expected ==
               /\ last.property \in DOMAIN binaryIndices
               /\ ~o.disableIndexIntersect
               /\ (o.forceIndexIntersect \/ Len(data) < threshold * frl)
       IN  last.path = IF expected THEN "index intersect" ELSE "comparator sort"

\* the call that just returned read the position sequence of the Binary
\* Index on field: find through the range scan, simpleSort through the index
\* copy or the intersection
ReadIndex(field) ==
    \/ /\ last.op = "simpleSort"
       /\ last.property = field
       /\ last.path \in {"index copy", "index intersect"}
    \/ /\ last.op = "find"
       /\ ~last.threw
       /\ Len(data) > 0
       /\ ~last.pre.filterInitialized
       /\ last.query.kind = "fields"
       /\ Len(last.query.clauses) = 1
       /\ last.query.clauses[1].form = "name"
       /\ last.query.clauses[1].name = field
       /\ last.query.clauses[1].key \in indexedOps

\* C32: the chain never trusts a dirty Binary Index: whenever find or
\* simpleSort has read an index's position sequence (range scan, index copy
\* or intersection) in non-adaptive mode, the index had been rebuilt through
\* ensureIndex since it was last dirtied, so it is clean when the call
\* returns.
C32_NeverReadsDirtyIndex ==
    \A field \in DOMAIN binaryIndices :
        (adaptiveBinaryIndices # TRUE /\ ReadIndex(field))
        => ~binaryIndices[field].dirty

\* how often position p occurs in rows, and equality of two row sequences
\* as multisets
Occurrences(rows, p) == Cardinality({i \in 1..Len(rows) : rows[i] = p})
SameMultiset(a, b) ==
    \A p \in Range(a) \cup Range(b) : Occurrences(a, p) = Occurrences(b, p)

\* C34: sorting only reorders: after sort, simpleSort (comparator sort,
\* index copy or index intersection, also when the store changed since the
\* index was built) or compoundSort has returned, the multiset of rows the
\* chain represents equals the multiset it represented before the call.
C34_SortingOnlyReorders ==
    (last.op \in {"sort", "simpleSort", "compoundSort"} /\ ~last.threw)
    => SameMultiset(Represented(rs), Represented(last.pre))

\* C35: after any chain operations (find, findAnd, findOr, where including
\* a constant-true filter, the sorts, limit, offset, copy) on a store that
\* has not been mutated, every entry of filteredRows is a position p with
\* 0 <= p < store size, and no position occurs twice.  None of these
\* operations mutates the store, so the claim is checked call by call: a
\* chain whose rows are valid and distinct still has valid and distinct rows
\* when the call returns, and so has the chain that limit, offset or copy
\* returns.
C35_RowsValidAndDistinct ==
    (/\ last.op \in {"find", "findAnd", "findOr", "where", "sort", "simpleSort",
                     "compoundSort", "limit", "offset", "copy"}
     /\ RowsInStore(last.pre)
     /\ NoDuplicates(last.pre.filteredRows))
    => \A out \in {rs} \cup (IF last.op \in {"limit", "offset", "copy"}
                            THEN {last.ret} ELSE {}) :
          /\ RowsInStore(out)
          /\ NoDuplicates(out.filteredRows)

\* a can be obtained from b by deleting entries
RECURSIVE IsSubsequence(_, _)
IsSubsequence(a, b) ==
    IF a = <<>> THEN TRUE
    ELSE IF b = <<>> THEN FALSE
    ELSE IF Head(a) = Head(b) THEN IsSubsequence(Tail(a), Tail(b))
    ELSE IsSubsequence(a, Tail(b))

\* C36: filtering narrows and keeps order: after find, findAnd or where has
\* returned, the new filteredRows is a subsequence of the row sequence the
\* chain represented before the call: nothing is added, nothing reordered.
C36_FilteringIsSubsequence ==
    last.op \in {"find", "findAnd", "where"}
    => IsSubsequence(rs.filteredRows, Represented(last.pre))

\* C37: the reads data(), count() and mapReduce() do not change the chain:
\* filteredRows and filterInitialized are the same after the call as before.
C37_ReadsLeaveChain ==
    last.op \in {"data", "count", "mapReduce"} => rs = last.pre

\* C33: a copy is isolated from its original: once a branch of the chain
\* has been taken, find, where, sort, simpleSort and findOr on the one chain
\* leave the other's filteredRows and filterInitialized as they were,
\* because copy duplicates the row sequence.  The chain and its branch are
\* equal when the branch is taken, so the calls on the chain stand for the
\* calls on either of the two.
C33_CopyIsolated ==
    [][last'.op \in {"find", "where", "sort", "simpleSort", "findOr"}
       => other' = other]_vars

\* a branch was taken of a chain holding two rows, and the chain was then
\* sorted into the opposite order: the branch still holds the rows as they
\* were
C33_Witness ==
    /\ last.op = "sort"
    /\ other = last.pre
    /\ Len(other.filteredRows) = 2
    /\ rs.filteredRows = Reverse(other.filteredRows)
====
